---- MODULE Spec2Model ----
(***************************************************************************)
(* Super App API (src/main.py): OTP authentication, session tokens, the    *)
(* activity feed and the token-gated vertical endpoints, over a document   *)
(* store (module `database`: create_document, get_documents, db).          *)
(*                                                                         *)
(* Strings that are trimmed or formatted by the code are sequences of      *)
(* one-character strings, so that str.strip() and the "06d" format are     *)
(* computed.  Opaque strings (tokens, refs, titles) are TLA+ strings.      *)
(* Optional[str] is a sequence of length 0 (None) or 1 (the string).       *)
(* Time is counted in minutes of UTC.                                      *)
(***************************************************************************)
EXTENDS Integers, Sequences, FiniteSets, TLC

VARIABLES otp, session, activity, payment, now, resp, calls

vars == <<otp, session, activity, payment, now, resp, calls>>

(***************************************************************************)
(* Bounds of the model.                                                    *)
(***************************************************************************)
MaxOtp == 2
MaxSession == 2
MaxPayment == 1

(***************************************************************************)
(* Program constants.                                                      *)
(***************************************************************************)
OtpMinutes == 5
SessionDays == 7
CodeSpace == 1000000
ExpiresIn == 300
ActivityLimit == 50

SessionMinutes == SessionDays * 24 * 60

(***************************************************************************)
(* Inputs.                                                                 *)
(***************************************************************************)
RawPhones == { <<" ">>, <<" ", "a", " ">>, <<"b">> }
RandDraws == { 7, 123456 }
randbelow(n) == { d \in RandDraws : d < n }
RawCodes == { <<" ", "0", "0", "0", "0", "0", "7", " ">>,
              <<"1", "2", "3", "4", "5", "6">>,
              <<"7">> }
Tokens == { "t1", "t2", "t3", "t4" }
Refs == { "r1" }
TokenRank(t) == CHOOSE n \in 1..4 : <<"t1", "t2", "t3", "t4">>[n] = t
None == <<>>
Some(s) == <<s>>
RawTokens == { None, Some(""), Some("bogus") } \cup { Some(t) : t \in Tokens }
Procs == { 1, 2 }

(***************************************************************************)
(* str.strip(): leading and trailing whitespace removed.                   *)
(***************************************************************************)
IsSpace(c) == c = " "

RECURSIVE lstrip(_)
lstrip(s) == IF s # <<>> /\ IsSpace(Head(s)) THEN lstrip(Tail(s)) ELSE s

RECURSIVE rstrip(_)
rstrip(s) ==
    IF s # <<>> /\ IsSpace(s[Len(s)]) THEN rstrip(SubSeq(s, 1, Len(s) - 1)) ELSE s

strip(s) == rstrip(lstrip(s))

(***************************************************************************)
(* f"{n:06d}": decimal digits of n, zero-padded on the left to width 6.    *)
(***************************************************************************)
Digit(d) == <<"0", "1", "2", "3", "4", "5", "6", "7", "8", "9">>[d + 1]

RECURSIVE Decimal(_)
Decimal(n) == IF n < 10 THEN <<Digit(n)>> ELSE Decimal(n \div 10) \o <<Digit(n % 10)>>

RECURSIVE ZeroPad(_, _)
ZeroPad(s, w) == IF Len(s) >= w THEN s ELSE ZeroPad(<<"0">> \o s, w)

Format06d(n) == ZeroPad(Decimal(n), 6)

(***************************************************************************)
(* The document store.  A collection is the sequence of its documents in   *)
(* insertion order; a filter is a record of field values that a document   *)
(* must carry.                                                             *)
(***************************************************************************)
Matches(doc, flt) == \A k \in DOMAIN flt : k \in DOMAIN doc /\ doc[k] = flt[k]

Take(s, n) == IF Len(s) <= n THEN s ELSE SubSeq(s, 1, n)

get_documents(coll, flt, limit) ==
    LET Hit(d) == Matches(d, flt) IN Take(SelectSeq(coll, Hit), limit)

create_document(coll, doc) == Append(coll, doc)

update_many(coll, flt, set) ==
    [i \in DOMAIN coll |->
        IF Matches(coll[i], flt)
        THEN [k \in DOMAIN coll[i] \cup DOMAIN set |->
                 IF k \in DOMAIN set THEN set[k] ELSE coll[i][k]]
        ELSE coll[i]]

(***************************************************************************)
(* Responses: the endpoint that answered, the HTTP status, the detail of  *)
(* an HTTPException and the JSON body.                                     *)
(***************************************************************************)
NoResp == [op |-> "none", status |-> 0, detail |-> "", body |-> <<>>]

HTTPException(op, status_code, detail) ==
    [op |-> op, status |-> status_code, detail |-> detail, body |-> <<>>]

Ok(op, body) == [op |-> op, status |-> 200, detail |-> "", body |-> body]

IdleCall == [pc |-> "idle", user_id |-> <<>>, items |-> <<>>, i |-> 0]

Init ==
    /\ otp = <<>>
    /\ session = <<>>
    /\ activity = <<>>
    /\ payment = <<>>
    /\ now = 0
    /\ resp = NoResp
    /\ calls = [p \in Procs |-> IdleCall]

(***************************************************************************)
(* datetime.now(timezone.utc) advances between requests.  The clock is     *)
(* observed at the instants that separate the cases of the comparisons:   *)
(* 0, the expiry of an OTP issued at 0 and the minute after it; for the    *)
(* sessions, 0 and the minute after the expiry of a session issued at 0.   *)
(***************************************************************************)
OtpInstants == { 0, OtpMinutes, OtpMinutes + 1 }
SessionInstants == { 0, SessionMinutes + 1 }

Advance(instants) ==
    /\ \E t \in instants : t > now /\ now' = t
    /\ UNCHANGED <<otp, session, activity, payment, resp, calls>>

Tick == Advance(OtpInstants)

TickLate == Advance(SessionInstants)

(***************************************************************************)
(* POST /auth/request-otp                                                  *)
(***************************************************************************)
OtpDoc(phone, code, expires_at) ==
    [phone |-> phone, code |-> code, status |-> "pending", expires_at |-> expires_at,
     attempts |-> 0]

\* Variant: the lifetime taken in the unit of the expires_in hint.
OtpExpiry_Seconds(t) == t + ExpiresIn

OtpExpiry(t) == t + OtpMinutes

request_otp(rawphone, draw) ==
    LET phone == strip(rawphone)
        code == Format06d(draw)
    IN  IF phone = <<>>
        THEN /\ resp' = HTTPException("request_otp", 400, "Phone is required")
             /\ UNCHANGED <<otp, session, activity, payment, now, calls>>
        ELSE /\ Len(otp) < MaxOtp
             /\ otp' = create_document(otp, OtpDoc(phone, code, OtpExpiry(now)))
             /\ resp' = Ok("request_otp",
                           [success |-> TRUE, code |-> code, expires_in |-> ExpiresIn])
             /\ UNCHANGED <<session, activity, payment, now, calls>>

(***************************************************************************)
(* POST /auth/verify-otp                                                   *)
(***************************************************************************)
\* Variant: a record already verified is refused (single use).
CodeExpired_SingleUse(otp_doc, t) == otp_doc.status # "pending" \/ otp_doc.expires_at < t

\* Variant: the record is refused from the instant of its expiry on.
CodeExpired_AtExpiry(otp_doc, t) == otp_doc.status = "expired" \/ otp_doc.expires_at <= t

CodeExpired(otp_doc, t) == otp_doc.status = "expired" \/ otp_doc.expires_at < t

SessionDoc(phone, token, t) ==
    [user_id |-> phone, token |-> token, expires_at |-> t + SessionMinutes]

IssuedTokens == { session[i].token : i \in DOMAIN session }

(***************************************************************************)
(* secrets.token_hex(16): 128 random bits.  Two draws are taken never to   *)
(* coincide: a draw is the first name not yet issued.                      *)
(***************************************************************************)
token_hex == CHOOSE t \in Tokens \ IssuedTokens :
                 \A u \in Tokens \ IssuedTokens : TokenRank(t) <= TokenRank(u)

\* Variant: the update filters on the phone alone.
MarkVerified_ByPhone(coll, phone, code, t) ==
    update_many(coll, [phone |-> phone], [status |-> "verified", updated_at |-> t])

MarkVerified(coll, phone, code, t) ==
    update_many(coll, [phone |-> phone, code |-> code],
                [status |-> "verified", updated_at |-> t])

\* Variant: the lookup filters on the phone alone.
FindOtp_PhoneOnly(phone, code) == get_documents(otp, [phone |-> phone], 1)

FindOtp(phone, code) == get_documents(otp, [phone |-> phone, code |-> code], 1)

(***************************************************************************)
(* try: update_many(...) except Exception: pass -- a store failure leaves  *)
(* the collection as it was and does not reach the response.               *)
(***************************************************************************)
BestEffortMark(coll, phone, code, t, updateFails) ==
    IF updateFails THEN coll ELSE MarkVerified(coll, phone, code, t)

\* Variant: the failure of the update reaches the caller.
VerifyResponse_Surfaced(token, updateFails) ==
    IF updateFails THEN HTTPException("verify_otp", 500, "Internal Server Error")
                   ELSE Ok("verify_otp", [success |-> TRUE, token |-> token])

VerifyResponse(token, updateFails) == Ok("verify_otp", [success |-> TRUE, token |-> token])

verify_otp(rawphone, rawcode, updateFails) ==
    LET token == token_hex
        phone == strip(rawphone)
        code == strip(rawcode)
        matches == FindOtp(phone, code)
    IN  IF matches = <<>>
        THEN /\ resp' = HTTPException("verify_otp", 400, "Invalid code")
             /\ UNCHANGED <<otp, session, activity, payment, now, calls>>
        ELSE IF CodeExpired(matches[1], now)
        THEN /\ resp' = HTTPException("verify_otp", 400, "Code expired")
             /\ UNCHANGED <<otp, session, activity, payment, now, calls>>
        ELSE /\ Len(session) < MaxSession
             /\ session' = create_document(session, SessionDoc(phone, token, now))
             /\ otp' = BestEffortMark(otp, phone, code, now, updateFails)
             /\ resp' = VerifyResponse(token, updateFails)
             /\ UNCHANGED <<activity, payment, now, calls>>

RequestOtp ==
    \E rawphone \in RawPhones, draw \in randbelow(CodeSpace) : request_otp(rawphone, draw)

VerifyOtp ==
    \E rawphone \in RawPhones, rawcode \in RawCodes, updateFails \in BOOLEAN :
        verify_otp(rawphone, rawcode, updateFails)

(***************************************************************************)
(* GET /activity                                                           *)
(***************************************************************************)
NotToken(token) == token = None \/ token[1] = ""

\* Variant: the lookup honours the stored expiry of the session.
FindSession_Unexpired(token) ==
    LET Hit(d) == d.token = token[1] /\ d.expires_at > now
    IN  Take(SelectSeq(session, Hit), 1)

FindSession(token) == get_documents(session, [token |-> token[1]], 1)

Demo(user_id) ==
    << [user_id |-> user_id, category |-> "travel", title |-> "Flight to NYC booked",
        details |-> "6E 101", amount_x10 |-> 2490],
       [user_id |-> user_id, category |-> "payment", title |-> "Paid at Coffee Bar",
        details |-> "VISA **** 4213", amount_x10 |-> 45],
       [user_id |-> user_id, category |-> "cab", title |-> "Cab ride completed",
        details |-> "Downtown to Office", amount_x10 |-> 123],
       [user_id |-> user_id, category |-> "grocery", title |-> "Grocery order delivered",
        details |-> "Order #GZ1021", amount_x10 |-> 569] >>

UserItems(coll, user_id) == get_documents(coll, [user_id |-> user_id], ActivityLimit)

\* Variant: the demo entries are inserted on every visit.
NeedsSeed_Always(items) == TRUE

NeedsSeed(items) == items = <<>>

RECURSIVE CreateAll(_, _)
CreateAll(coll, docs) ==
    IF docs = <<>> THEN coll ELSE CreateAll(create_document(coll, Head(docs)), Tail(docs))

list_activity(token) ==
    IF NotToken(token)
    THEN /\ resp' = HTTPException("list_activity", 401, "Missing token")
         /\ UNCHANGED <<otp, session, activity, payment, now, calls>>
    ELSE IF FindSession(token) = <<>>
    THEN /\ resp' = HTTPException("list_activity", 401, "Invalid token")
         /\ UNCHANGED <<otp, session, activity, payment, now, calls>>
    ELSE LET user_id == FindSession(token)[1].user_id
             items == UserItems(activity, user_id)
         IN  /\ activity' = IF NeedsSeed(items) THEN CreateAll(activity, Demo(user_id))
                                                ELSE activity
             /\ resp' = Ok("list_activity",
                           [items |-> IF NeedsSeed(items) THEN UserItems(activity', user_id)
                                                         ELSE items])
             /\ UNCHANGED <<otp, session, payment, now, calls>>

ListActivity == \E token \in RawTokens : list_activity(token)

(***************************************************************************)
(* GET /activity as the store sees it: the session lookup, the query, the  *)
(* four inserts and the second query are separate store operations, and    *)
(* requests run on a thread pool.  calls[p] is the position of worker p.   *)
(***************************************************************************)
ActBegin(p, token) ==
    /\ calls[p].pc = "idle"
    /\ IF NotToken(token)
       THEN /\ resp' = HTTPException("list_activity", 401, "Missing token")
            /\ UNCHANGED calls
       ELSE IF FindSession(token) = <<>>
       THEN /\ resp' = HTTPException("list_activity", 401, "Invalid token")
            /\ UNCHANGED calls
       ELSE /\ calls' = [calls EXCEPT ![p] = [IdleCall EXCEPT
                            !.pc = "query", !.user_id = FindSession(token)[1].user_id]]
            /\ UNCHANGED resp
    /\ UNCHANGED <<otp, session, activity, payment, now>>

ActQuery(p) ==
    /\ calls[p].pc = "query"
    /\ LET items == UserItems(activity, calls[p].user_id)
       IN  calls' = [calls EXCEPT ![p] =
                IF NeedsSeed(items) THEN [@ EXCEPT !.pc = "seed", !.i = 1]
                                    ELSE [@ EXCEPT !.pc = "return", !.items = items]]
    /\ UNCHANGED <<otp, session, activity, payment, now, resp>>

ActSeed(p) ==
    /\ calls[p].pc = "seed"
    /\ activity' = create_document(activity, Demo(calls[p].user_id)[calls[p].i])
    /\ calls' = [calls EXCEPT ![p] =
            IF @.i = Len(Demo(@.user_id)) THEN [@ EXCEPT !.pc = "requery", !.i = 0]
                                          ELSE [@ EXCEPT !.i = @ + 1]]
    /\ UNCHANGED <<otp, session, payment, now, resp>>

ActRequery(p) ==
    /\ calls[p].pc = "requery"
    /\ calls' = [calls EXCEPT ![p] =
            [@ EXCEPT !.pc = "return", !.items = UserItems(activity, calls[p].user_id)]]
    /\ UNCHANGED <<otp, session, activity, payment, now, resp>>

ActReturn(p) ==
    /\ calls[p].pc = "return"
    /\ resp' = Ok("list_activity", [items |-> calls[p].items])
    /\ calls' = [calls EXCEPT ![p] = IdleCall]
    /\ UNCHANGED <<otp, session, activity, payment, now>>

(***************************************************************************)
(* POST /cab/quote, /grocery/checkout, /travel/search, /pay/create-intent  *)
(* Amounts are in cents.                                                   *)
(***************************************************************************)
Max(a, b) == IF a >= b THEN a ELSE b

Places == { <<>>, <<"x", "y">> }
CartSizes == { 2 }
Amounts == { 1000 }
Methods == { "card" }

cab_quote(pickup, dropoff, token) ==
    /\ IF NotToken(token)
       THEN resp' = HTTPException("cab_quote", 401, "Missing token")
       ELSE resp' = Ok("cab_quote",
                       [pickup |-> pickup, dropoff |-> dropoff,
                        fare |-> 250 + 12 * Max(1, Len(pickup \o dropoff))])
    /\ UNCHANGED <<otp, session, activity, payment, now, calls>>

grocery_checkout(items, token) ==
    /\ IF NotToken(token)
       THEN resp' = HTTPException("grocery_checkout", 401, "Missing token")
       ELSE resp' = Ok("grocery_checkout",
                       [total |-> 399 + items * 250, status |-> "created"])
    /\ UNCHANGED <<otp, session, activity, payment, now, calls>>

travel_search(from_city, to_city, token) ==
    /\ IF NotToken(token)
       THEN resp' = HTTPException("travel_search", 401, "Missing token")
       ELSE resp' = Ok("travel_search",
                       [results |-> << [from |-> from_city, to |-> to_city,
                                        airline |-> "IndiGo",
                                        price |-> 9900 + (Len(from_city) + Len(to_city)) * 550] >>])
    /\ UNCHANGED <<otp, session, activity, payment, now, calls>>

create_payment(amount, method, ref, token) ==
    IF NotToken(token)
    THEN /\ resp' = HTTPException("create_payment", 401, "Missing token")
         /\ UNCHANGED <<otp, session, activity, payment, now, calls>>
    ELSE /\ Len(payment) < MaxPayment
         /\ payment' = create_document(payment,
                [user_id |-> token[1], amount |-> amount, method |-> method, ref |-> ref])
         /\ resp' = Ok("create_payment", [ref |-> ref, status |-> "requires_confirmation"])
         /\ UNCHANGED <<otp, session, activity, now, calls>>

CabQuote ==
    \E pickup \in Places, dropoff \in Places, token \in RawTokens :
        cab_quote(pickup, dropoff, token)

GroceryCheckout == \E items \in CartSizes, token \in RawTokens : grocery_checkout(items, token)

TravelSearch ==
    \E from_city \in Places, to_city \in Places, token \in RawTokens :
        travel_search(from_city, to_city, token)

CreatePayment ==
    \E amount \in Amounts, method \in Methods, ref \in Refs, token \in RawTokens :
        create_payment(amount, method, ref, token)

(***************************************************************************)
(* Spec: the OTP endpoints served one request at a time, with the clock.   *)
(* SpecFeed: the same with /activity, over the lifetime of a session.      *)
(* SpecGate: the token-gated endpoints, at one instant.                    *)
(* SpecConc: /activity served by concurrent workers.                       *)
(***************************************************************************)
Next == RequestOtp \/ VerifyOtp \/ Tick

Spec == Init /\ [][Next]_vars

NextFeed == RequestOtp \/ VerifyOtp \/ TickLate \/ ListActivity

SpecFeed == Init /\ [][NextFeed]_vars

NextGate ==
    \/ RequestOtp
    \/ VerifyOtp
    \/ ListActivity
    \/ CabQuote
    \/ GroceryCheckout
    \/ TravelSearch
    \/ CreatePayment

SpecGate == Init /\ [][NextGate]_vars

ConcPhones == { <<"b">> }
ConcDraws == { 7 }
ConcTokens == { None, Some("bogus"), Some("t1"), Some("t2") }

NextConc ==
    \/ \E rawphone \in ConcPhones, draw \in ConcDraws : request_otp(rawphone, draw)
    \/ \E rawphone \in ConcPhones, draw \in ConcDraws :
           verify_otp(rawphone, Format06d(draw), FALSE)
    \/ \E p \in Procs, token \in ConcTokens : ActBegin(p, token)
    \/ \E p \in Procs : ActQuery(p)
    \/ \E p \in Procs : ActSeed(p)
    \/ \E p \in Procs : ActRequery(p)
    \/ \E p \in Procs : ActReturn(p)

SpecConc == Init /\ [][NextConc]_vars

(***************************************************************************)
(* Vocabulary of the properties.                                           *)
(***************************************************************************)
IsTrimOf(p, raw) ==
    \E i \in 1..(Len(raw) + 1), j \in 0..Len(raw) :
        /\ j >= i - 1
        /\ p = SubSeq(raw, i, j)
        /\ \A k \in 1..(i - 1) : raw[k] = " "
        /\ \A k \in (j + 1)..Len(raw) : raw[k] = " "
        /\ p # <<>> => p[1] # " " /\ p[Len(p)] # " "

TrimTable ==
    [raw \in RawPhones \cup RawCodes |->
        CHOOSE p \in { SubSeq(raw, i, j) : i \in 1..(Len(raw) + 1), j \in 0..Len(raw) } :
            IsTrimOf(p, raw)]

Trimmed(raw) == TrimTable[raw]

PairIdx(coll, p, c) == { i \in DOMAIN coll : coll[i].phone = p /\ coll[i].code = c }

FirstOf(S) == CHOOSE i \in S : \A j \in S : i <= j

Live(r, t) == r.status # "expired" /\ r.expires_at >= t

IsPrefix(a, b) == Len(a) <= Len(b) /\ \A i \in DOMAIN a : b[i] = a[i]

IssuesSession(p) ==
    /\ resp'.op = "verify_otp" /\ resp'.status = 200
    /\ Len(session') = Len(session) + 1
    /\ IsPrefix(session, session')
    /\ session'[Len(session')].user_id = p
    /\ session'[Len(session')].token = resp'.body.token
    /\ session'[Len(session')].token \notin IssuedTokens

Rejects(detail) ==
    /\ resp'.op = "verify_otp" /\ resp'.status = 400 /\ resp'.detail = detail
    /\ session' = session
    /\ otp' = otp

UserOf(token) == session[FirstOf({ i \in DOMAIN session : session[i].token = token })].user_id

HasSession(token) == token # None /\ \E i \in DOMAIN session : session[i].token = token[1]

CountFor(coll, u) == Cardinality({ i \in DOMAIN coll : coll[i].user_id = u })

(***************************************************************************)
(* C1 as stated: verify-otp succeeds iff SOME record with the trimmed      *)
(* (phone, code) pair is unexpired, and otherwise answers "Invalid code"   *)
(* when no record has the pair and "Code expired" when one has.            *)
(***************************************************************************)
C1_AnyRecord ==
    [][\A rp \in RawPhones, rc \in RawCodes, uf \in BOOLEAN :
          verify_otp(rp, rc, uf) =>
              LET idx == PairIdx(otp, Trimmed(rp), Trimmed(rc))
              IN  IF \E i \in idx : Live(otp[i], now) THEN IssuesSession(Trimmed(rp))
                  ELSE IF idx = {} THEN Rejects("Invalid code")
                  ELSE Rejects("Code expired")]_vars

(***************************************************************************)
(* C1 amended: verify-otp succeeds iff the record the store returns first  *)
(* for the trimmed (phone, code) pair (the earliest inserted) is           *)
(* unexpired; it answers "Invalid code" when no record has the pair and    *)
(* "Code expired" when that first record is expired, whatever later        *)
(* records with the pair say.                                              *)
(***************************************************************************)
C1_FirstRecord ==
    [][\A rp \in RawPhones, rc \in RawCodes, uf \in BOOLEAN :
          verify_otp(rp, rc, uf) =>
              LET idx == PairIdx(otp, Trimmed(rp), Trimmed(rc))
              IN  IF idx = {} THEN Rejects("Invalid code")
                  ELSE IF Live(otp[FirstOf(idx)], now) THEN IssuesSession(Trimmed(rp))
                  ELSE Rejects("Code expired")]_vars

C1_Witness ==
    /\ resp.op = "verify_otp" /\ resp.detail = "Code expired"
    /\ Len(otp) = 2
    /\ otp[1].phone = otp[2].phone /\ otp[1].code = otp[2].code
    /\ otp[1].expires_at < now
    /\ otp[2].expires_at >= now

(***************************************************************************)
(* C2: a token-gated endpoint called with a token that is absent, empty or *)
(* not the token of a session record answers 401 and writes nothing.       *)
(***************************************************************************)
GatedCall(token) ==
    \/ list_activity(token)
    \/ \E pickup \in Places, dropoff \in Places : cab_quote(pickup, dropoff, token)
    \/ \E items \in CartSizes : grocery_checkout(items, token)
    \/ \E from_city \in Places, to_city \in Places : travel_search(from_city, to_city, token)
    \/ \E amount \in Amounts, method \in Methods, ref \in Refs :
           create_payment(amount, method, ref, token)

C2_TokenGate ==
    [][\A token \in RawTokens :
          GatedCall(token) /\ ~HasSession(token) =>
              resp'.status = 401 /\ payment' = payment /\ activity' = activity]_vars

(***************************************************************************)
(* C3 as stated: for ANY otp record, a verify-otp call with its pair made  *)
(* before its expires_at succeeds and persists a new session with a fresh  *)
(* token for the phone, whether or not an earlier call verified it.        *)
(***************************************************************************)
C3_AnyRecord ==
    [][\A rp \in RawPhones, rc \in RawCodes, uf \in BOOLEAN :
          verify_otp(rp, rc, uf) =>
              LET idx == PairIdx(otp, Trimmed(rp), Trimmed(rc))
              IN  (\E i \in idx : now < otp[i].expires_at) => IssuesSession(Trimmed(rp))]_vars

(***************************************************************************)
(* C3 amended: for an otp record that is the one the store returns first   *)
(* for its (phone, code) pair, every verify-otp call with the pair made    *)
(* before its expires_at succeeds, also when the record is already         *)
(* 'verified', and persists a further session with a token distinct from   *)
(* those issued before and with user_id = phone.                           *)
(***************************************************************************)
C3_Repeatable ==
    [][\A rp \in RawPhones, rc \in RawCodes, uf \in BOOLEAN :
          verify_otp(rp, rc, uf) =>
              LET idx == PairIdx(otp, Trimmed(rp), Trimmed(rc))
              IN  (idx # {} /\ now < otp[FirstOf(idx)].expires_at) =>
                      IssuesSession(Trimmed(rp))]_vars

C3_Witness ==
    \E i, j \in DOMAIN session :
        /\ i < j
        /\ session[i].user_id = session[j].user_id
        /\ session[i].token # session[j].token
        /\ Len(otp) = 1
        /\ otp[1].phone = session[i].user_id
        /\ otp[1].status = "verified"
        /\ otp[1].updated_at = session[i].expires_at - SessionMinutes
        /\ otp[1].updated_at < session[j].expires_at - SessionMinutes
        /\ resp.op = "verify_otp" /\ resp.status = 200 /\ resp.body.token = session[j].token

(***************************************************************************)
(* C4: session records are never changed or removed, and /activity called  *)
(* with the token of any session record succeeds and answers with the      *)
(* items of that record's user_id, at every instant, the instants after    *)
(* the record's expires_at included.                                       *)
(***************************************************************************)
C4_TokenForever ==
    [][/\ IsPrefix(session, session')
       /\ \A i \in DOMAIN session :
             list_activity(Some(session[i].token)) =>
                 /\ resp'.op = "list_activity" /\ resp'.status = 200
                 /\ resp'.body.items # <<>>
                 /\ \A k \in DOMAIN resp'.body.items :
                        resp'.body.items[k].user_id = session[i].user_id]_vars

C4_Witness ==
    /\ now > SessionMinutes
    /\ \E i \in DOMAIN otp : otp[i].expires_at = now + OtpMinutes
    /\ resp.op = "list_activity" /\ resp.status = 200
    /\ \E i \in DOMAIN session : session[i].user_id = resp.body.items[1].user_id
    /\ \A i \in DOMAIN session :
          session[i].user_id = resp.body.items[1].user_id => session[i].expires_at < now

(***************************************************************************)
(* C5 as stated: the record verify-otp matched is accepted only while      *)
(* expires_at > now, so a call at now = expires_at answers "Code expired". *)
(***************************************************************************)
C5_Strict ==
    [][\A rp \in RawPhones, rc \in RawCodes, uf \in BOOLEAN :
          verify_otp(rp, rc, uf) =>
              LET idx == PairIdx(otp, Trimmed(rp), Trimmed(rc))
              IN  idx # {} =>
                      IF otp[FirstOf(idx)].status # "expired" /\ otp[FirstOf(idx)].expires_at > now
                      THEN IssuesSession(Trimmed(rp))
                      ELSE Rejects("Code expired")]_vars

(***************************************************************************)
(* C5 amended: whenever verify-otp issues a session, the record it matched *)
(* had status # expired and expires_at >= now; a call made exactly at      *)
(* now = expires_at is accepted, and a call at any now > expires_at        *)
(* answers "Code expired".                                                 *)
(***************************************************************************)
C5_AcceptedThroughExpiry ==
    [][\A rp \in RawPhones, rc \in RawCodes, uf \in BOOLEAN :
          verify_otp(rp, rc, uf) =>
              LET idx == PairIdx(otp, Trimmed(rp), Trimmed(rc))
                  doc == otp[FirstOf(idx)]
              IN  /\ resp'.status = 200 =>
                        idx # {} /\ doc.status # "expired" /\ doc.expires_at >= now
                  /\ idx # {} /\ doc.status # "expired" /\ doc.expires_at = now =>
                        IssuesSession(Trimmed(rp))
                  /\ idx # {} /\ doc.expires_at < now => Rejects("Code expired")]_vars

C5_Witness ==
    /\ resp.op = "verify_otp" /\ resp.status = 200
    /\ Len(otp) = 1
    /\ otp[1].expires_at = now
    /\ session[Len(session)].token = resp.body.token
    /\ session[Len(session)].user_id = otp[1].phone
    /\ session[Len(session)].expires_at = otp[1].expires_at + SessionMinutes

(***************************************************************************)
(* C6: when the update that marks the records 'verified' fails in a        *)
(* verify-otp call that matched an acceptable record, the call still       *)
(* answers 200 with the token, the session created before the update is    *)
(* persisted under that token, and no otp record changes.                  *)
(***************************************************************************)
C6_UpdateFailureMasked ==
    [][\A rp \in RawPhones, rc \in RawCodes :
          verify_otp(rp, rc, TRUE) =>
              LET idx == PairIdx(otp, Trimmed(rp), Trimmed(rc))
              IN  (idx # {} /\ Live(otp[FirstOf(idx)], now)) =>
                      /\ IssuesSession(Trimmed(rp))
                      /\ otp' = otp
                      /\ \E i \in DOMAIN session' :
                            /\ session'[i].token = resp'.body.token
                            /\ session'[i].user_id = Trimmed(rp)]_vars

C6_Witness ==
    /\ resp.op = "verify_otp" /\ resp.status = 200
    /\ session # <<>>
    /\ session[Len(session)].token = resp.body.token
    /\ \E i \in DOMAIN otp : otp[i].phone = session[Len(session)].user_id
    /\ \A i \in DOMAIN otp :
          otp[i].phone = session[Len(session)].user_id => otp[i].status = "pending"

(***************************************************************************)
(* C7: request-otp with a phone that is non-empty after trimming appends   *)
(* exactly one otp record (trimmed phone, 6 decimal digits, pending,       *)
(* attempts 0, expires_at = now + 5 minutes) and leaves the earlier otp    *)
(* records and the sessions as they were; with a phone that is empty after *)
(* trimming it answers 400 and adds nothing.                               *)
(***************************************************************************)
IsDigits(c) == \A k \in DOMAIN c : c[k] \in { "0", "1", "2", "3", "4", "5", "6", "7", "8", "9" }

C7_RequestOtpFrame ==
    [][\A rp \in RawPhones, d \in RandDraws :
          request_otp(rp, d) =>
              IF Trimmed(rp) # <<>>
              THEN /\ Len(otp') = Len(otp) + 1
                   /\ IsPrefix(otp, otp')
                   /\ otp'[Len(otp')].phone = Trimmed(rp)
                   /\ Len(otp'[Len(otp')].code) = 6
                   /\ IsDigits(otp'[Len(otp')].code)
                   /\ otp'[Len(otp')].status = "pending"
                   /\ otp'[Len(otp')].attempts = 0
                   /\ otp'[Len(otp')].expires_at = now + 5
                   /\ session' = session
                   /\ resp'.status = 200
                   /\ resp'.body.code = otp'[Len(otp')].code
              ELSE /\ resp'.status = 400
                   /\ otp' = otp
                   /\ session' = session]_vars

C7_Witness ==
    /\ resp.op = "request_otp" /\ resp.status = 200
    /\ Len(otp) = 2
    /\ otp[1].phone = otp[2].phone
    /\ otp[1].status = "pending" /\ otp[2].status = "pending"
    /\ otp[2].code = resp.body.code
    /\ session # <<>>

(***************************************************************************)
(* C8: with requests served one at a time, /activity for an authenticated  *)
(* user with no activity record persists and returns exactly the 4 demo    *)
(* entries (travel, payment, cab, grocery); for a user who has records it  *)
(* returns those same 4 records and adds none.                             *)
(***************************************************************************)
C8_SeedOnce ==
    [][\A token \in RawTokens :
          (HasSession(token) /\ list_activity(token)) =>
              LET u == UserOf(token[1])
                  mine(d) == d.user_id = u
                  items == resp'.body.items
              IN  /\ resp'.status = 200
                  /\ Len(items) = 4
                  /\ { items[k].category : k \in DOMAIN items } =
                         { "travel", "payment", "cab", "grocery" }
                  /\ items = SelectSeq(activity', mine)
                  /\ IF CountFor(activity, u) = 0
                     THEN Len(activity') = Len(activity) + 4 /\ IsPrefix(activity, activity')
                     ELSE activity' = activity /\ items = SelectSeq(activity, mine)]_vars

C8_Witness ==
    /\ Len(activity) = 8
    /\ activity[1].user_id # activity[5].user_id
    /\ resp.op = "list_activity" /\ resp.status = 200
    /\ Len(resp.body.items) = 4
    /\ resp.body.items[1].user_id = activity[1].user_id

(***************************************************************************)
(* C9: every otp record is pending or verified; a step changes otp records *)
(* only by appending one (request-otp) or, in a successful verify-otp, by  *)
(* setting to verified all the records that share the verified pair and    *)
(* touching no other; a rejected verify-otp changes no otp record and      *)
(* creates no session; no record goes back to pending or becomes expired.  *)
(***************************************************************************)
C9_StatusOk == \A i \in DOMAIN otp : otp[i].status \in { "pending", "verified" }

C9_Step ==
    /\ IsPrefix([i \in DOMAIN otp |-> otp[i].phone], [i \in DOMAIN otp' |-> otp'[i].phone])
    /\ \A i \in DOMAIN otp :
          /\ otp[i].status = "verified" => otp'[i].status = "verified"
          /\ otp'[i].status # "expired"
          /\ otp'[i].code = otp[i].code /\ otp'[i].expires_at = otp[i].expires_at
    /\ (\E i \in DOMAIN otp : otp'[i] # otp[i]) =>
          /\ resp'.op = "verify_otp" /\ resp'.status = 200
          /\ Len(otp') = Len(otp)
          /\ \E i \in DOMAIN otp :
                /\ otp[i].phone = session'[Len(session')].user_id
                /\ \A k \in DOMAIN otp :
                      IF otp[k].phone = otp[i].phone /\ otp[k].code = otp[i].code
                      THEN otp'[k].status = "verified"
                      ELSE otp'[k] = otp[k]
    /\ (resp'.op = "verify_otp" /\ resp'.status # 200 /\ resp' # resp) =>
          otp' = otp /\ session' = session

C9_StatusMachine == []C9_StatusOk /\ [][C9_Step]_vars

C9_Witness ==
    /\ Len(otp) = 2
    /\ otp[1].phone = otp[2].phone
    /\ otp[1].code # otp[2].code
    /\ otp[1].status = "pending"
    /\ otp[2].status = "verified"

(***************************************************************************)
(* C10: with /activity served by concurrent workers, the activity          *)
(* collection never holds more than the 4 demo entries of a user and no    *)
(* call returns more than 4 items.                                         *)
(***************************************************************************)
C10_AtMostFour ==
    /\ \A i \in DOMAIN activity : CountFor(activity, activity[i].user_id) <= 4
    /\ resp.op = "list_activity" /\ resp.status = 200 => Len(resp.body.items) <= 4
====
